---- MODULE Spec2Model ----
(***************************************************************************)
(* Task Tracker (src/src/main.rs): a druid application holding a list of   *)
(* named tasks, an optional selected index, a draft name and a one-second  *)
(* single-shot timer chain; the state is written to tasks.json.            *)
(*                                                                         *)
(* Strings are sequences of one-character strings, so that trim() is       *)
(* computed.  Indices are 0-based as in the source: the task at index i is *)
(* tasks[i + 1].                                                           *)
(***************************************************************************)
EXTENDS Integers, Sequences, FiniteSets, TLC

\* Bounds of the model.
MaxTasks == 2    \* Add Task is not explored beyond this many tasks
MaxToken == 4    \* request_timer is not explored beyond this token
MaxSeconds == 3700  \* format_time is applied to every time up to this one

\* Option<T>: a sequence of at most one value.
None == <<>>
Some(x) == <<x>>
Unwrap(o) == o[1]

\* tasks.json: absent, holding text that does not parse into an AppState,
\* or holding a JSON document.
Missing == [kind |-> "missing"]
Corrupt == [kind |-> "corrupt"]
Json(doc) == [kind |-> "json", doc |-> doc]

\* JSON values of the field "selected".
JsonNull == <<"null">>
JsonNumber(n) == <<"number", n>>

WriteReport == <<"W", "r", "i", "t", "e", " ", "R", "e", "p", "o", "r", "t">>
ReviewPR == <<"R", "e", "v", "i", "e", "w", " ", "P", "R">>
Empty == <<>>
Blank == <<" ", "\t">>

\* What the user may type into the TextBox.
TextInputs == {Empty, Blank, WriteReport, ReviewPR}

VARIABLES
    tasks,          \* AppState.tasks: sequence of [name, accumulated]
    selected,       \* AppState.selected: None or Some(0-based index)
    new_task_name,  \* AppState.new_task_name: the TextBox draft
    timer_token,    \* AppState.timer_token: None or Some(token)
    file,           \* tasks.json: Missing, Corrupt or a JSON document
    timers,         \* druid: tokens of the timers requested and not yet fired
    next_token,     \* druid: the token the next request_timer returns
    connected,      \* druid: WindowConnected has been delivered to this window
    last,           \* the event handled last and what its handler did
    script,         \* how far the run has followed Scenario, or Off
    total_seconds,  \* format_time: the argument
    label           \* format_time: the String returned, <<>> before the call

vars == <<tasks, selected, new_task_name, timer_token, file, timers,
          next_token, connected, last, script, total_seconds, label>>

data == <<tasks, selected, new_task_name, timer_token>>
druid == <<timers, next_token, connected>>
formatting == <<total_seconds, label>>

----------------------------------------------------------------------------
\* Pure helpers.

IsWhitespace(c) == c \in {" ", "\t", "\n", "\r"}

RECURSIVE TrimStart(_)
TrimStart(s) ==
    IF s # <<>> /\ IsWhitespace(Head(s)) THEN TrimStart(Tail(s)) ELSE s

RECURSIVE TrimEnd(_)
TrimEnd(s) ==
    IF s # <<>> /\ IsWhitespace(s[Len(s)])
    THEN TrimEnd(SubSeq(s, 1, Len(s) - 1))
    ELSE s

NoTrim(s) == s

\* str::trim
Trim(s) == TrimEnd(TrimStart(s))

\* Task { name, accumulated: 0 }
NewTask(n) == [name |-> n, accumulated |-> 0]

PushFront(ts, t) == <<t>> \o ts

\* Vector::push_back
PushBack(ts, t) == Append(ts, t)

RemoveFirst(ts, idx) == Tail(ts)

RemovePrevious(ts, idx) ==
    LET k == IF idx > 0 THEN idx - 1 ELSE idx
    IN [i \in 1..(Len(ts) - 1) |-> IF i <= k THEN ts[i] ELSE ts[i + 1]]

\* Vector::remove(idx), idx < len
VectorRemove(ts, idx) ==
    [i \in 1..(Len(ts) - 1) |-> IF i <= idx THEN ts[i] ELSE ts[i + 1]]

FindLastTask(ts, n) ==
    LET hits == {i \in 0..(Len(ts) - 1) : ts[i + 1].name = n}
    IN IF hits = {} THEN None
       ELSE Some(CHOOSE i \in hits : \A j \in hits : i >= j)

\* tasks.iter().enumerate().find(|(_, task)| &task.name == task_name):
\* the first index whose task has that name, or None.
FindTask(ts, n) ==
    LET hits == {i \in 0..(Len(ts) - 1) : ts[i + 1].name = n}
    IN IF hits = {} THEN None
       ELSE Some(CHOOSE i \in hits : \A j \in hits : i <= j)

IncrementSkipped(ts, idx) == ts

IncrementFirst(ts, idx) == [ts EXCEPT ![1].accumulated = @ + 1]

IncrementAll(ts, idx) ==
    [i \in 1..Len(ts) |-> [ts[i] EXCEPT !.accumulated = @ + 1]]

\* if let Some(task) = data.tasks.get_mut(idx) { task.accumulated += 1; }
Increment(ts, idx) ==
    IF idx < Len(ts)
    THEN [ts EXCEPT ![idx + 1].accumulated = @ + 1]
    ELSE ts

AppStateFirstSelected ==
    [tasks |-> <<>>, selected |-> Some(0), new_task_name |-> <<>>,
     timer_token |-> None]

\* AppState::new()
AppStateNew ==
    [tasks |-> <<>>, selected |-> None, new_task_name |-> <<>>,
     timer_token |-> None]

ToJsonSkipSelected(d) ==
    [tasks |-> d.tasks, selected |-> JsonNull,
     new_task_name |-> d.new_task_name]

\* serde_json::to_string(state): timer_token is #[serde(skip)], None is null.
ToJson(d) ==
    [tasks |-> [i \in 1..Len(d.tasks) |->
                  [name |-> d.tasks[i].name,
                   accumulated |-> d.tasks[i].accumulated]],
     selected |-> IF d.selected = None THEN JsonNull
                  ELSE JsonNumber(Unwrap(d.selected)),
     new_task_name |-> d.new_task_name]

FromJsonOneBased(j) ==
    [tasks |-> j.tasks,
     selected |-> IF j.selected = JsonNull THEN None
                  ELSE Some(j.selected[2] + 1),
     new_task_name |-> j.new_task_name,
     timer_token |-> None]

FromJsonSkipDraft(j) ==
    [tasks |-> j.tasks,
     selected |-> IF j.selected = JsonNull THEN None
                  ELSE Some(j.selected[2]),
     new_task_name |-> <<>>,
     timer_token |-> None]

\* serde_json::from_str::<AppState>: the skipped field takes its default.
FromJson(j) ==
    [tasks |-> j.tasks,
     selected |-> IF j.selected = JsonNull THEN None
                  ELSE Some(j.selected[2]),
     new_task_name |-> j.new_task_name,
     timer_token |-> None]

\* The state as one AppState value.
AppState(ts, sel, draft, tok) ==
    [tasks |-> ts, selected |-> sel, new_task_name |-> draft,
     timer_token |-> tok]

Current == AppState(tasks, selected, new_task_name, timer_token)

\* How std::fs::write may end: the text is written; the file cannot be
\* opened and is left as it was; or the file has been created or truncated
\* and the write then fails, which leaves it empty or with a prefix of the
\* text, neither of which parses.
WriteOutcomes == {"ok", "refused", "torn"}

SaveNothing(d, w) == file

SaveStale(d, w) ==
    CASE w = "ok" -> Json(ToJson(Current))
      [] w = "refused" -> file
      [] w = "torn" -> Corrupt

\* save_state: the contents of tasks.json after the call; a failed write
\* only prints a message.
SaveState(d, w) ==
    CASE w = "ok" -> Json(ToJson(d))
      [] w = "refused" -> file
      [] w = "torn" -> Corrupt

\* load_state
LoadState(f) == IF f.kind = "json" THEN FromJson(f.doc) ELSE AppStateNew

\* What a handler did: the event, its argument (the text typed, the name
\* selected, the token of the timer), whether save_state ran and how the
\* write ended, the Handled value of Delegate::command, whether the
\* timer token matched, whether the handler panicked.
Ev(op, arg, saved, handled, honoured, panicked) ==
    [op |-> op, arg |-> arg, saved |-> saved, handled |-> handled,
     honoured |-> honoured, panicked |-> panicked]

Saved(w) == IF w = "ok" THEN "ok" ELSE "failed"

----------------------------------------------------------------------------
\* The end-to-end scenario of the specification's testable properties.

Step(op, arg) == [op |-> op, arg |-> arg]

Scenario ==
    << Step("connect", <<>>),
       Step("edit", WriteReport), Step("add", <<>>),
       Step("edit", ReviewPR), Step("add", <<>>),
       Step("select", ReviewPR),
       Step("timer", <<>>), Step("timer", <<>>), Step("timer", <<>>) >>

\* The run has left the scenario.
Off == Len(Scenario) + 1

\* The event is the scenario's next step, its write (if any) succeeded and,
\* for a timer event, the token was honoured.
Follows(ev) ==
    /\ script < Len(Scenario)
    /\ ev.op = Scenario[script + 1].op
    /\ ev.saved # "failed"
    /\ IF ev.op = "timer" THEN ev.honoured
       ELSE ev.arg = Scenario[script + 1].arg

\* Every handler: what it did is recorded; format_time is not involved.
Record(ev) ==
    /\ last' = ev
    /\ script' = IF Follows(ev) THEN script + 1 ELSE Off
    /\ UNCHANGED formatting

----------------------------------------------------------------------------
\* main: load_state() on a first start, before the window connects.
Init ==
    /\ file \in {Missing, Corrupt}
    /\ tasks = LoadState(file).tasks
    /\ selected = LoadState(file).selected
    /\ new_task_name = LoadState(file).new_task_name
    /\ timer_token = LoadState(file).timer_token
    /\ timers = {}
    /\ next_token = 1
    /\ connected = FALSE
    /\ last = Ev("launch", <<>>, "none", FALSE, FALSE, FALSE)
    /\ script = 0
    /\ total_seconds = 0
    /\ label = <<>>

\* TimerController::event, Event::WindowConnected.
WindowConnected ==
    /\ ~connected
    /\ next_token <= MaxToken
    /\ connected' = TRUE
    /\ timers' = timers \cup {next_token}
    /\ timer_token' = Some(next_token)
    /\ next_token' = next_token + 1
    /\ Record(Ev("connect", <<>>, "none", FALSE, FALSE, FALSE))
    /\ UNCHANGED <<tasks, selected, new_task_name, file>>

\* TextBox::new().lens(AppState::new_task_name): the user edits the draft.
TextEdit(s) ==
    /\ connected
    /\ s # new_task_name
    /\ new_task_name' = s
    /\ Record(Ev("edit", s, "none", FALSE, FALSE, FALSE))
    /\ UNCHANGED <<tasks, selected, timer_token, file, druid>>

\* Button "Add Task" on_click; w: how the write of save_state ends.
AddTask(w) ==
    /\ connected
    /\ IF Trim(new_task_name) # <<>>
       THEN /\ Len(tasks) < MaxTasks
            /\ tasks' = PushBack(tasks, NewTask(new_task_name))
            /\ new_task_name' = <<>>
            /\ file' = SaveState(AppState(tasks', selected, new_task_name',
                                          timer_token), w)
            /\ Record(Ev("add", <<>>, Saved(w), FALSE, FALSE, FALSE))
            /\ UNCHANGED <<selected, timer_token, druid>>
       ELSE /\ Record(Ev("add", <<>>, "none", FALSE, FALSE, FALSE))
            /\ UNCHANGED <<data, file, druid>>

SelectedKept == selected

\* data.selected = None, after "Remove Selected Task" removed the task.
SelectedAfterRemove == None

\* Button "Remove Selected Task" on_click.  Vector::remove panics when the
\* index is out of bounds.
RemoveSelected(w) ==
    /\ connected
    /\ IF selected # None
       THEN IF Unwrap(selected) < Len(tasks)
            THEN /\ tasks' = VectorRemove(tasks, Unwrap(selected))
                 /\ selected' = SelectedAfterRemove
                 /\ file' = SaveState(AppState(tasks', selected', new_task_name,
                                               timer_token), w)
                 /\ Record(Ev("remove", <<>>, Saved(w), FALSE, FALSE, FALSE))
                 /\ UNCHANGED <<new_task_name, timer_token, druid>>
            ELSE /\ Record(Ev("remove", <<>>, "none", FALSE, FALSE, TRUE))
                 /\ UNCHANGED <<data, file, druid>>
       ELSE /\ Record(Ev("remove", <<>>, "none", FALSE, FALSE, FALSE))
            /\ UNCHANGED <<data, file, druid>>

\* Delegate::command with a SELECT_TASK command carrying the name n.
SelectTask(n) ==
    /\ connected
    /\ LET idx == FindTask(tasks, n)
       IN IF idx # None
          THEN /\ selected' = idx
               /\ Record(Ev("select", n, "none", TRUE, FALSE, FALSE))
          ELSE /\ selected' = selected
               /\ Record(Ev("select", n, "none", FALSE, FALSE, FALSE))
    /\ UNCHANGED <<tasks, new_task_name, timer_token, file, druid>>

AnyToken(token) == TRUE

\* if Some(*token) == data.timer_token
TokenMatches(token) == Some(token) = timer_token

RearmForgotten(token) ==
    /\ timers' = timers \ {token}
    /\ UNCHANGED <<timer_token, next_token>>

\* let token = ctx.request_timer(..); data.timer_token = Some(token);
\* the timer that fired is no longer outstanding.
Rearm(token) ==
    /\ timers' = (timers \ {token}) \cup {next_token}
    /\ timer_token' = Some(next_token)
    /\ next_token' = next_token + 1

\* TimerController::event, Event::Timer(token).  druid may deliver the timer
\* events of other widgets as well; a timer fires once.
TimerEvent(token, w) ==
    /\ connected
    /\ IF TokenMatches(token)
       THEN /\ next_token <= MaxToken
            /\ IF selected # None
               THEN /\ tasks' = Increment(tasks, Unwrap(selected))
                    /\ file' = SaveState(AppState(tasks', selected, new_task_name,
                                                  timer_token), w)
                    /\ Record(Ev("timer", Some(token), Saved(w), FALSE, TRUE, FALSE))
               ELSE /\ Record(Ev("timer", Some(token), "none", FALSE, TRUE, FALSE))
                    /\ UNCHANGED <<tasks, file>>
            /\ Rearm(token)
            /\ UNCHANGED <<selected, new_task_name, connected>>
       ELSE /\ timers' = timers \ {token}
            /\ Record(Ev("timer", Some(token), "none", FALSE, FALSE, FALSE))
            /\ UNCHANGED <<data, file, next_token, connected>>

\* The window is closed and the program started again: main, load_state.
\* A new process issues tokens unrelated to the old one's; the model keeps
\* drawing them from the same counter, so no token is issued twice.
Restart ==
    /\ connected
    /\ tasks' = LoadState(file).tasks
    /\ selected' = LoadState(file).selected
    /\ new_task_name' = LoadState(file).new_task_name
    /\ timer_token' = LoadState(file).timer_token
    /\ timers' = {}
    /\ connected' = FALSE
    /\ Record(Ev("launch", <<>>, "none", FALSE, FALSE, FALSE))
    /\ UNCHANGED <<file, next_token>>

\* The names a SELECT_TASK command may carry.
Names == {s \in TextInputs : Trim(s) # <<>>}

\* Every write to tasks.json succeeds.
Next ==
    \/ WindowConnected
    \/ \E s \in TextInputs : TextEdit(s)
    \/ AddTask("ok")
    \/ RemoveSelected("ok")
    \/ \E n \in Names : SelectTask(n)
    \/ \E token \in 0..(next_token - 1) : TimerEvent(token, "ok")
    \/ Restart

Spec == Init /\ [][Next]_vars

\* A write to tasks.json may fail.
NextFail ==
    \/ WindowConnected
    \/ \E s \in TextInputs : TextEdit(s)
    \/ \E w \in WriteOutcomes : AddTask(w)
    \/ \E w \in WriteOutcomes : RemoveSelected(w)
    \/ \E n \in Names : SelectTask(n)
    \/ \E token \in 0..(next_token - 1), w \in WriteOutcomes :
         TimerEvent(token, w)
    \/ Restart

SpecFail == Init /\ [][NextFail]_vars

----------------------------------------------------------------------------
\* format_time, as a function of its argument alone.

Digit(d) == <<"0", "1", "2", "3", "4", "5", "6", "7", "8", "9">>[d + 1]

\* The decimal digits of n, as Display for u64 writes them.
RECURSIVE Digits(_)
Digits(n) ==
    IF n < 10 THEN <<Digit(n)>> ELSE Digits(n \div 10) \o <<Digit(n % 10)>>

\* {:02}: at least two characters, padded with zeros on the left.
Pad2(n) == IF n < 10 THEN <<"0">> \o Digits(n) ELSE Digits(n)

FormatTimeMinutesNotReduced(t) ==
    Pad2(t \div 3600) \o <<":">> \o Pad2(t \div 60) \o <<":">> \o Pad2(t % 60)

\* format_time
format_time(t) ==
    LET hours == t \div 3600
        minutes == (t % 3600) \div 60
        seconds == t % 60
    IN Pad2(hours) \o <<":">> \o Pad2(minutes) \o <<":">> \o Pad2(seconds)

\* The times format_time is applied to: every one up to MaxSeconds, and
\* some around a day and around a hundred hours.
Seconds == (0..MaxSeconds) \cup {86399, 86400, 359999, 360000, 360001, 4000000}

\* The program as in Init, and a time to format.
InitFormat ==
    /\ file = Missing
    /\ tasks = LoadState(file).tasks
    /\ selected = LoadState(file).selected
    /\ new_task_name = LoadState(file).new_task_name
    /\ timer_token = LoadState(file).timer_token
    /\ timers = {}
    /\ next_token = 1
    /\ connected = FALSE
    /\ last = Ev("launch", <<>>, "none", FALSE, FALSE, FALSE)
    /\ script = 0
    /\ total_seconds \in Seconds
    /\ label = <<>>

\* Label::new(|task, _env| format_time(task.accumulated))
RenderLabel ==
    /\ label = <<>>
    /\ label' = format_time(total_seconds)
    /\ UNCHANGED <<data, file, druid, last, script, total_seconds>>

NextFormat == RenderLabel

SpecFormat == InitFormat /\ [][NextFormat]_vars

----------------------------------------------------------------------------
\* The timer requested last fires: druid delivers it one second after
\* request_timer.
HonouredFire ==
    /\ timer_token # None
    /\ TimerEvent(Unwrap(timer_token), "ok")

\* Every write succeeds and a requested timer is eventually delivered.
SpecLive == Spec /\ WF_vars(HonouredFire)

----------------------------------------------------------------------------
\* Vocabulary of the properties.

\* The persisted part of an AppState: timer_token is transient.
Persistent(d) == <<d.tasks, d.selected, d.new_task_name>>

\* Reloading tasks.json gives the in-memory tasks, selected and draft.
FileMatchesState ==
    /\ file.kind = "json"
    /\ Persistent(LoadState(file)) = Persistent(Current)

\* The string has a character that is not whitespace.
HasText(s) == \E i \in 1..Len(s) : s[i] \notin {" ", "\t", "\n", "\r"}

\* The indices (0-based) of the tasks named n.
Named(ts, n) == {i \in 0..(Len(ts) - 1) : ts[i + 1].name = n}

\* The handler that ran last changed tasks, selected or the draft as one of
\* the four mutating operations.
Mutated ==
    \/ last.op \in {"add", "remove"} /\ last.saved # "none"
    \/ last.op = "select" /\ last.handled
    \/ last.op = "timer" /\ last.honoured /\ selected # None

----------------------------------------------------------------------------
\* C1: selected is none or an index strictly less than the number of tasks,
\* in every reachable state.
C1_SelectedValid == selected = None \/ Unwrap(selected) < Len(tasks)

\* A second task is selected.
C1_Witness == last.op = "select" /\ selected = Some(1) /\ Len(tasks) = 2

\* C2: after every mutating operation (add, remove, select, tick), with
\* writes succeeding, tasks.json reloads to the in-memory state.
C2_PersistedAfterMutation == Mutated /\ last.saved # "failed" => FileMatchesState

\* C3: an honoured timer tick whose selection resolves to a task adds exactly
\* 1 to that task's accumulated time and leaves every other task, the names,
\* the order, the count, selected and the draft unchanged.
C3_TickIncrementsSelected ==
    [][ (/\ last'.op = "timer"
         /\ last'.arg = timer_token
         /\ selected # None
         /\ Unwrap(selected) < Len(tasks))
        => /\ Len(tasks') = Len(tasks)
           /\ \A i \in 0..(Len(tasks) - 1) :
                /\ tasks'[i + 1].name = tasks[i + 1].name
                /\ tasks'[i + 1].accumulated =
                     IF i = Unwrap(selected)
                     THEN tasks[i + 1].accumulated + 1
                     ELSE tasks[i + 1].accumulated
           /\ selected' = selected
           /\ new_task_name' = new_task_name ]_vars

\* A tick has counted on the second of two tasks, the first untouched.
C3_Witness ==
    /\ last.op = "timer" /\ last.honoured
    /\ Len(tasks) = 2 /\ selected = Some(1)
    /\ tasks[2].accumulated = 2 /\ tasks[1].accumulated = 0

\* C4: select_by_name(n) sets selected to the lowest index whose task is
\* named n and reports handled, also with duplicate names; with no task
\* named n, selected is unchanged and it reports unhandled.  The tasks and
\* the draft are unchanged in both cases.
C4_SelectFirstMatch ==
    [][ last'.op = "select"
        => LET n == last'.arg
               hits == Named(tasks, n)
           IN /\ hits # {} =>
                   /\ selected' # None
                   /\ Unwrap(selected') \in hits
                   /\ \A j \in hits : Unwrap(selected') <= j
                   /\ last'.handled
              /\ hits = {} => selected' = selected /\ ~last'.handled
              /\ tasks' = tasks
              /\ new_task_name' = new_task_name ]_vars

\* A select was handled while two tasks share the name selected.
C4_Witness ==
    /\ last.op = "select" /\ last.handled
    /\ Len(tasks) = 2 /\ tasks[1].name = tasks[2].name
    /\ last.arg = tasks[2].name /\ selected = Some(0)

\* C5: with a draft that is non-empty after trimming, add_task appends one
\* task with the draft name and accumulated time 0, clears the draft, leaves
\* the existing tasks and selected unchanged, and persists the result.
C5_AddAppends ==
    [][ last'.op = "add" /\ HasText(new_task_name)
        => /\ Len(tasks') = Len(tasks) + 1
           /\ tasks'[Len(tasks')] = [name |-> new_task_name, accumulated |-> 0]
           /\ SubSeq(tasks', 1, Len(tasks)) = tasks
           /\ new_task_name' = <<>>
           /\ selected' = selected
           /\ last'.saved = "ok"
           /\ FileMatchesState' ]_vars

\* A second task was added while the first was selected and had counted.
C5_Witness ==
    /\ last.op = "add" /\ last.saved = "ok"
    /\ Len(tasks) = 2 /\ selected = Some(0)
    /\ tasks[1].accumulated > 0 /\ tasks[1].name # tasks[2].name

\* C6: with an empty or all-whitespace draft, add_task changes neither the
\* tasks, selected nor the draft, and writes nothing to tasks.json.
C6_AddBlankIsNoOp ==
    [][ last'.op = "add" /\ ~HasText(new_task_name)
        => /\ UNCHANGED <<tasks, selected, new_task_name, file>>
           /\ last'.saved = "none" ]_vars

\* Add Task was clicked on a whitespace-only draft.
C6_Witness ==
    /\ last.op = "add" /\ last.saved = "none"
    /\ new_task_name = Blank

\* C7: remove_selected with a selection removes exactly the task at the
\* selected index (the others keep name, time and order), sets selected to
\* none and persists; with no selection it changes neither the state nor
\* tasks.json.
C7_RemoveSelected ==
    [][ last'.op = "remove"
        => IF selected # None
           THEN /\ Len(tasks') = Len(tasks) - 1
                /\ \A i \in 0..(Len(tasks') - 1) :
                     tasks'[i + 1] = IF i < Unwrap(selected)
                                     THEN tasks[i + 1]
                                     ELSE tasks[i + 2]
                /\ selected' = None
                /\ new_task_name' = new_task_name
                /\ last'.saved = "ok"
                /\ FileMatchesState'
           ELSE /\ UNCHANGED <<tasks, selected, new_task_name, file>>
                /\ last'.saved = "none" ]_vars

\* One of two tasks was removed; the one left has counted.
C7_Witness ==
    /\ last.op = "remove" /\ last.saved = "ok"
    /\ Len(tasks) = 1 /\ tasks[1].accumulated > 0

\* C8: after add "Write Report", add "Review PR", select "Review PR" and
\* three honoured ticks from the empty state, "Review PR" has accumulated 3,
\* "Write Report" 0, and tasks.json reloads to the in-memory state.
C8_EndToEnd ==
    script = Len(Scenario)
    => /\ tasks = << [name |-> WriteReport, accumulated |-> 0],
                     [name |-> ReviewPR, accumulated |-> 3] >>
       /\ selected = Some(1)
       /\ FileMatchesState

\* The scenario has run to its end.
C8_Witness == script = Len(Scenario) /\ last.op = "timer" /\ last.saved = "ok"

\* C9: once the window has connected, exactly one timer is outstanding and
\* timer_token holds its token; every honoured fire, with or without a
\* selection, requests one new timer.
C9_AlwaysArmed ==
    /\ [](connected => timer_token # None /\ timers = {Unwrap(timer_token)})
    /\ [][ last'.op = "timer" /\ last'.arg = timer_token
           => /\ timer_token' # None
              /\ Unwrap(timer_token') \notin timers
              /\ timers' = {Unwrap(timer_token')} ]_vars

\* An honoured fire with no selection has re-armed the timer.
C9_Witness ==
    /\ last.op = "timer" /\ last.honoured /\ selected = None
    /\ timers = {Unwrap(timer_token)} /\ last.arg # timer_token

\* C10: a timer event whose token is not timer_token changes no task,
\* neither selected nor timer_token, writes nothing and arms no timer.
C10_StaleTimerIgnored ==
    [][ last'.op = "timer" /\ last'.arg # timer_token
        => /\ UNCHANGED <<tasks, selected, new_task_name, timer_token, file,
                          next_token>>
           /\ timers' \subseteq timers
           /\ last'.saved = "none" ]_vars

\* A foreign timer event arrived while a task was selected and had counted.
C10_Witness ==
    /\ last.op = "timer" /\ ~last.honoured
    /\ last.arg # timer_token /\ timer_token # None
    /\ selected # None /\ tasks[Unwrap(selected) + 1].accumulated > 0

\* C11: with timers delivered, while a task is selected the timer requested
\* last is eventually honoured (unless the window closes or the selection is
\* cleared first), and every honoured fire with a selection keeps the
\* selection and adds exactly 1 to the selected task, none skipped: a task
\* that stays selected has its accumulated time increased.  (The model stops
\* requesting timers at MaxToken.)
C11_SelectedTaskAccrues ==
    /\ \A n \in 1..MaxToken :
         (connected /\ selected # None /\ next_token = n)
         ~> (~connected \/ selected = None \/ next_token > n)
    /\ [][ (last'.op = "timer" /\ last'.arg = timer_token /\ selected # None)
           => /\ selected' = selected
              /\ tasks'[Unwrap(selected) + 1].accumulated =
                   tasks[Unwrap(selected) + 1].accumulated + 1 ]_vars

\* Three fires in a row have each counted on the first task.
C11_Witness ==
    /\ last.op = "timer" /\ last.honoured
    /\ selected = Some(0) /\ tasks[1].accumulated = 3

\* C12: a task's accumulated time changes only by a timer tick while that
\* task is the selected one, and then by +1: add, remove, select and ticks
\* with another or no selection leave the time of every task that stays in
\* the list as it was, so it never decreases.  The task at index i is at
\* index i afterwards, or at i - 1 when a task before it was removed.
C12_OnlyTickChangesTime ==
    [][ last'.op \in {"add", "remove", "select", "timer", "edit", "connect"}
        => LET removed == IF Len(tasks') < Len(tasks) THEN selected ELSE None
               ticked == IF last'.op = "timer" /\ last'.arg = timer_token
                         THEN selected ELSE None
           IN \A i \in 0..(Len(tasks) - 1) :
                \/ removed = Some(i)
                \/ LET j == IF removed # None /\ Unwrap(removed) < i
                            THEN i - 1 ELSE i
                   IN /\ j < Len(tasks')
                      /\ tasks'[j + 1].name = tasks[i + 1].name
                      /\ tasks'[j + 1].accumulated =
                           IF ticked = Some(i)
                           THEN tasks[i + 1].accumulated + 1
                           ELSE tasks[i + 1].accumulated ]_vars

\* Another task was selected while the second one keeps the time it has.
C12_Witness ==
    /\ last.op = "select" /\ last.handled /\ selected = Some(0)
    /\ Len(tasks) = 2 /\ tasks[2].accumulated > 0

\* C13: an honoured timer fire calls save_state exactly when a selection
\* exists (after it tasks.json reloads to the in-memory state); with no
\* selection it changes neither tasks, selected nor the draft and writes
\* nothing.
C13_FireSavesIffSelected ==
    [][ last'.op = "timer" /\ last'.arg = timer_token
        => IF selected # None
           THEN last'.saved = "ok" /\ FileMatchesState'
           ELSE /\ last'.saved = "none"
                /\ UNCHANGED <<tasks, selected, new_task_name, file>> ]_vars

\* A fire with no selection left a typed draft unsaved.
C13_Witness ==
    /\ last.op = "timer" /\ last.honoured /\ last.saved = "none"
    /\ selected = None /\ new_task_name = ReviewPR
    /\ ~FileMatchesState

\* C14: load never fails: started on a tasks.json that is missing or does
\* not parse, the program holds the default state (no task, no selection,
\* empty draft, no timer token), with nothing recovered from the file.
C14_LoadFallsBackToDefault ==
    last.op = "launch" /\ file.kind # "json"
    => /\ tasks = <<>>
       /\ selected = None
       /\ new_task_name = <<>>
       /\ timer_token = None
       /\ ~last.panicked

\* The program was started again, after three honoured fires, on a file that
\* does not parse.
C14_Witness ==
    /\ last.op = "launch" /\ file = Corrupt
    /\ next_token = MaxToken + 1

\* C15: for every reachable state s, load after a successful save of s
\* gives s in tasks (names, times, order), selected and draft, and no timer
\* token.
C15_RoundTrip ==
    LET loaded == LoadState(SaveState(Current, "ok"))
    IN /\ Len(loaded.tasks) = Len(tasks)
       /\ \A i \in 1..Len(tasks) :
            /\ loaded.tasks[i].name = tasks[i].name
            /\ loaded.tasks[i].accumulated = tasks[i].accumulated
       /\ loaded.selected = selected
       /\ loaded.new_task_name = new_task_name
       /\ loaded.timer_token = None

\* A state with times counted, a selection, a draft and a timer token has
\* been saved.
C15_Witness ==
    /\ last.saved = "ok" /\ FileMatchesState
    /\ selected = Some(1) /\ new_task_name = WriteReport
    /\ timer_token # None /\ tasks[2].accumulated > 0

\* The handler that ran took its full effect on the in-memory state.
FullEffect ==
    CASE last'.op = "add" ->
           /\ tasks' = Append(tasks, [name |-> new_task_name, accumulated |-> 0])
           /\ new_task_name' = <<>>
           /\ selected' = selected
      [] last'.op = "remove" ->
           /\ Len(tasks') = Len(tasks) - 1
           /\ selected' = None
           /\ new_task_name' = new_task_name
      [] last'.op = "timer" ->
           /\ Len(tasks') = Len(tasks)
           /\ tasks'[Unwrap(selected) + 1].accumulated =
                tasks[Unwrap(selected) + 1].accumulated + 1
           /\ selected' = selected
           /\ timer_token' # timer_token
      [] OTHER -> FALSE

\* C16 as claimed: a failed write is not fatal, the operation takes full
\* effect in memory, tasks.json keeps its previous contents (a file that did
\* not exist has none), and a successful save writes the current state.
C16_FailedWriteKeepsFile ==
    /\ [][ last'.saved = "failed"
           => /\ ~last'.panicked
              /\ FullEffect
              /\ file.kind # "missing" => file' = file ]_vars
    /\ [][ last'.saved = "ok" => FileMatchesState' ]_vars

\* C16, amended: a failed write is not fatal and not retried; the operation
\* takes full effect in memory; tasks.json keeps its previous contents or
\* is left with text that does not parse; a successful save writes the
\* current state; tasks.json changes only in a handler that calls
\* save_state.
C16_FailedWriteKeepsOrTearsFile ==
    /\ [][ last'.saved = "failed"
           => /\ ~last'.panicked
              /\ FullEffect
              /\ file' = file \/ file' = Corrupt ]_vars
    /\ [][ last'.saved = "ok" => FileMatchesState' ]_vars
    /\ [][ file' # file => last'.saved # "none" ]_vars

\* A tick counted in memory while its write failed and left tasks.json
\* unreadable.
C16_Witness ==
    /\ last.op = "timer" /\ last.saved = "failed"
    /\ file = Corrupt
    /\ selected = Some(1) /\ tasks[2].accumulated = 2

\* Reading a label back: the text before the first colon, between the two
\* colons and after the second, and the number a run of digits denotes.
Colons(s) == {i \in 1..Len(s) : s[i] = ":"}
FirstColon(s) == CHOOSE i \in Colons(s) : \A j \in Colons(s) : i <= j
LastColon(s) == CHOOSE i \in Colons(s) : \A j \in Colons(s) : i >= j
DigitValue(c) == CHOOSE d \in 0..9 : <<"0", "1", "2", "3", "4", "5", "6", "7", "8", "9">>[d + 1] = c
RECURSIVE Number(_)
Number(s) ==
    IF s = <<>> THEN 0
    ELSE 10 * Number(SubSeq(s, 1, Len(s) - 1)) + DigitValue(s[Len(s)])

\* C17: format_time(t) shows hours = t / 3600, minutes = (t % 3600) / 60 and
\* seconds = t % 60, each with at least two digits and joined by colons;
\* minutes and seconds stay below 60 and the three add up to t; hours never
\* roll over; 59 gives 00:00:59, 3600 gives 01:00:00, 3661 gives 01:01:01.
C17_FormatTime ==
    label # <<>>
    => LET t == total_seconds
           hh == SubSeq(label, 1, FirstColon(label) - 1)
           mm == SubSeq(label, FirstColon(label) + 1, LastColon(label) - 1)
           ss == SubSeq(label, LastColon(label) + 1, Len(label))
       IN /\ Cardinality(Colons(label)) = 2
          /\ \A i \in (1..Len(label)) \ Colons(label) :
               label[i] \in {"0", "1", "2", "3", "4", "5", "6", "7", "8", "9"}
          /\ Len(hh) >= 2 /\ Len(mm) = 2 /\ Len(ss) = 2
          /\ Len(hh) > 2 => hh[1] # "0"
          /\ Number(hh) = t \div 3600
          /\ Number(mm) = (t % 3600) \div 60
          /\ Number(ss) = t % 60
          /\ Number(mm) < 60 /\ Number(ss) < 60
          /\ Number(hh) * 3600 + Number(mm) * 60 + Number(ss) = t
          /\ t = 59 => label = <<"0", "0", ":", "0", "0", ":", "5", "9">>
          /\ t = 3600 => label = <<"0", "1", ":", "0", "0", ":", "0", "0">>
          /\ t = 3661 => label = <<"0", "1", ":", "0", "1", ":", "0", "1">>

\* 3661 seconds have been formatted.
C17_Witness ==
    /\ total_seconds = 3661
    /\ label = <<"0", "1", ":", "0", "1", ":", "0", "1">>

\* C18: no index drift.  A step that shortens the list removes exactly the
\* task at the selected index and clears the selection, so no task at an
\* index below a present selection is ever removed; while selected keeps
\* its value, every task keeps its index and name (add only appends) and
\* the selected task's time does not decrease; a present selection is
\* replaced only by a select or by starting the program again.
C18_NoIndexDrift ==
    [][ /\ Len(tasks') < Len(tasks)
           => /\ selected # None
              /\ selected' = None
              /\ Len(tasks') = Len(tasks) - 1
              /\ \A i \in 0..(Len(tasks') - 1) :
                   tasks'[i + 1] = IF i < Unwrap(selected)
                                   THEN tasks[i + 1]
                                   ELSE tasks[i + 2]
        /\ (selected # None /\ selected' = selected)
           => /\ Len(tasks') >= Len(tasks)
              /\ \A i \in 0..(Len(tasks) - 1) :
                   tasks'[i + 1].name = tasks[i + 1].name
              /\ tasks'[Unwrap(selected) + 1].accumulated >=
                   tasks[Unwrap(selected) + 1].accumulated
        /\ (selected # None /\ selected' # None /\ selected' # selected)
           => last'.op \in {"select", "launch"} ]_vars

\* A task was removed after three timers were honoured; the task left has
\* never counted.
C18_Witness ==
    /\ last.op = "remove" /\ last.saved = "ok" /\ selected = None
    /\ tasks = << [name |-> ReviewPR, accumulated |-> 0] >>
    /\ next_token = MaxToken + 1

\* C19: every document the program writes to tasks.json has selected null
\* or an index into the tasks written with it; so the state loaded at any
\* start has a valid selection, and Remove Selected Task never runs with an
\* index out of range (Vector::remove never panics).
C19_WrittenSelectionValid ==
    /\ file.kind = "json"
       => \/ file.doc.selected = JsonNull
          \/ /\ file.doc.selected[1] = "number"
             /\ file.doc.selected[2] \in 0..(Len(file.doc.tasks) - 1)
    /\ last.op = "launch"
       => selected = None \/ Unwrap(selected) \in 0..(Len(tasks) - 1)
    /\ ~last.panicked

\* The program was started again and loaded a selection of the second task.
C19_Witness ==
    /\ last.op = "launch" /\ file.kind = "json"
    /\ selected = Some(1) /\ Len(tasks) = 2

====
